---- MODULE Spec2Model ----
(***************************************************************************)
(* Amulet-Core: the version translation engine                             *)
(* (amulet/world_interface/chunk/translators/__init__.py).                 *)
(*                                                                         *)
(* A chunk owns a dense array of palette indices (modelled flattened in    *)
(* numpy's C order, x major, then y, then z), a biome array and a list of  *)
(* block entities.  Translator._translate rebuilds the palette through the *)
(* per-value `translate` closure and rewrites the array in place.          *)
(***************************************************************************)
EXTENDS Integers, Sequences, FiniteSets, TLC

VARIABLES
    pc,                 \* which call the harness is at
    chunk,              \* the Chunk object handed to the engine (mutated in place)
    palette,            \* the palette that goes with `chunk`
    chunk0,             \* the chunk as it was before the first call
    palette0,           \* the palette as it was before the first call
    profile,            \* the version profile: the external single-value translators
    get_chunk_callback, \* the neighbour resolver, or None
    full_translate,     \* the flag of the last call
    plain_calls,        \* number of translate(input_block) calls of the last call
    lookup_calls,       \* number of translate(input_block, get_block_at) calls
    resolved,           \* chunk coordinates the resolver was invoked with
    fold_in,            \* the value handed to the translate closure on its own
    fold_lookup,        \* the voxel its lookup was bound to (0: no lookup)
    fold_out,           \* its result
    biome_calls,        \* the values the biome translator was invoked with, in order
    look_at,            \* the voxel and the relative position of a get_block_at call
    looked,             \* what that call returned
    _revisions,              \* RAMEntry: the data for each revision
    _current_revision_index, \* RAMEntry: the index of the current data
    _saved_revision_index,   \* RAMEntry: the index of the saved version
    entry_call,         \* the last call on the RAMEntry and the state it found
    stamps,             \* for each stored revision, the number of the store that made it
    stored,             \* number of _store_entry calls so far
    saved_stamp,        \* the store number of the revision current at the last save
    box_self,           \* the SubBox intersects is called on
    box_other,          \* its argument
    box_result,         \* what intersects returned
    _boxes,             \* SelectionBox: its SubBoxes, in order
    add_box_call,       \* the last add_box call and the boxes it found
    _mode,              \* SchematicFormatWrapper: "r" or "w"
    _open,              \* SchematicFormatWrapper: whether open() has succeeded
    _platform,          \* SchematicFormatWrapper: the platform string
    _version,           \* SchematicFormatWrapper: the version tuple
    _selection,         \* SchematicFormatWrapper: the selected box
    _data,              \* SchematicFormatWrapper: the reader or writer, or None
    schematic_file,     \* the file at the wrapper's path
    wrapper_call,       \* the last call on the wrapper
    at_open             \* platform, version and selection when open() first returned

vars == <<pc, chunk, palette, chunk0, palette0, profile, get_chunk_callback,
          full_translate, plain_calls, lookup_calls, resolved, fold_in, fold_lookup,
          fold_out, biome_calls, look_at, looked,
          _revisions, _current_revision_index, _saved_revision_index, entry_call,
          stamps, stored, saved_stamp, box_self, box_other, box_result,
          _boxes, add_box_call, _mode, _open, _platform, _version, _selection, _data,
          schematic_file, wrapper_call, at_open>>

(***************************************************************************)
(* Sizes                                                                   *)
(***************************************************************************)
ChunkSize == 16

Height == 1

MaxPalette == 3

MaxExtra == 1

MaxBiomes == 3

Volume == ChunkSize * Height * ChunkSize

\* flat position (1-based) of the voxel [x, y, z], and back
FlatOf(x, y, z) == x * Height * ChunkSize + y * ChunkSize + z + 1

PosOf(k) ==
    << (k - 1) \div (Height * ChunkSize),
       ((k - 1) \div ChunkSize) % Height,
       (k - 1) % ChunkSize >>

(***************************************************************************)
(* Value model: Block, Entity, BlockEntity, BlockManager                   *)
(***************************************************************************)
Names == {"air", "a", "b", "c"}

EntityNames == {"e"}

Objects == Names \cup EntityNames

\* a Block is its chain of sub-blocks: the base block, then the extra blocks
Blk(chain) == [kind |-> "Block", chain |-> chain]

Ent(name) == [kind |-> "Entity", chain |-> <<name>>]

NoneValue == [kind |-> "None", chain |-> <<>>]

\* in a translator's table: the translator raises instead of answering
Raise == [kind |-> "Raise", chain |-> <<>>]

base_block(b) == Blk(<<b.chain[1]>>)

extra_blocks(b) == [i \in 1..(Len(b.chain) - 1) |-> Blk(<<b.chain[i + 1]>>)]

\* Block.__add__: layer `b` (its base and extras) on top of `a`
BlockAdd(a, b) == Blk(a.chain \o b.chain)

\* a BlockEntity instance; `id` is the identity of the Python object
NoBE == [some |-> FALSE, id |-> <<0, 0>>, namespace |-> "", base_name |-> "",
         x |-> 0, y |-> 0, z |-> 0]

BlockEntityAt(id, namespace, base_name, x, y, z) ==
    [some |-> TRUE, id |-> id, namespace |-> namespace, base_name |-> base_name,
     x |-> x, y |-> y, z |-> z]

\* BlockManager.get_add_block: the index of an equal block, appended if new
get_add_block(finished, block) ==
    IF \E i \in 1..Len(finished) : finished[i] = block
    THEN [index |-> (CHOOSE i \in 1..Len(finished) : finished[i] = block) - 1,
          blocks |-> finished]
    ELSE [index |-> Len(finished), blocks |-> Append(finished, block)]

(***************************************************************************)
(* The neighbour lookup of Pass 2                                          *)
(***************************************************************************)
NoCallback == [some |-> FALSE, k |-> 0]

\* get_chunk_callback(cx, cz): the (chunk, palette) the resolver answers for those
\* arguments; gcc.world[<<cx, cz>>] names the block that chunk is filled with,
\* gcc.marks[<<cx, cz>>] the voxels of it that hold block "c" instead, and
\* gcc.entities[<<cx, cz>>] are its block entities; for the arguments in gcc.fails
\* it raises instead (the caller looks at gcc.fails before it uses the answer)
resolve(gcc, cx, cz) ==
    [chunk |-> [cx |-> cx, cz |-> cz,
                blocks |-> [k \in 1..Volume |-> IF k \in gcc.marks[<<cx, cz>>] THEN 1 ELSE 0],
                biomes |-> <<>>, block_entities |-> gcc.entities[<<cx, cz>>]],
     palette |-> <<Blk(<<gcc.world[<<cx, cz>>]>>), Blk(<<"c">>)>>]

\* next((be for be in block_entities if (be.x, be.y, be.z) == (dx, dy, dz)), None)
FirstBlockEntityAt(block_entities, dx, dy, dz) ==
    LET hits == SelectSeq(block_entities,
                          LAMBDA be : be.x = dx /\ be.y = dy /\ be.z = dz)
    IN  IF Len(hits) = 0 THEN NoBE ELSE hits[1]

\* palette[index] as numpy reads it, beside the block entity found: an index below
\* zero counts from the end, one outside the palette raises IndexError
read(pal, index, be, asked) ==
    IF index >= Len(pal) \/ index < 0 - Len(pal)
    THEN [value |-> NoneValue, be |-> NoBE, resolved |-> asked, failed |-> TRUE]
    ELSE [value |-> pal[(index % Len(pal)) + 1], be |-> be, resolved |-> asked,
          failed |-> FALSE]

\* a plausible slip: every position read from the chunk being translated
get_block_at_current_only(cb, pos) ==
    LET p  == PosOf(cb.k)
        dx == pos[1] + p[1]
        dy == pos[2] + p[2]
        dz == pos[3] + p[3]
        at == FlatOf(dx % ChunkSize, dy, dz % ChunkSize)
    IN  read(cb.palette, cb.chunk.blocks[at],
             FirstBlockEntityAt(cb.chunk.block_entities, dx, dy, dz), {})

\* get_block_at(pos) of the voxel at flat position cb.k
get_block_at(cb, pos) ==
    LET p  == PosOf(cb.k)
        dx == pos[1] + p[1]
        dy == pos[2] + p[2]
        dz == pos[3] + p[3]
        cx == dx \div ChunkSize
        cz == dz \div ChunkSize
        at == FlatOf(dx % ChunkSize, dy, dz % ChunkSize)
    IN  IF cx = 0 /\ cz = 0
        THEN read(cb.palette, cb.chunk.blocks[at],
                  FirstBlockEntityAt(cb.chunk.block_entities, dx, dy, dz), {})
        ELSE IF <<cx, cz>> \in cb.get_chunk_callback.fails
        THEN [value |-> NoneValue, be |-> NoBE, resolved |-> {<<cx, cz>>},
              failed |-> TRUE]
        ELSE LET local == resolve(cb.get_chunk_callback, cx, cz)
             IN  read(local.palette, local.chunk.blocks[at],
                      FirstBlockEntityAt(local.chunk.block_entities, dx, dy, dz),
                      {<<cx, cz>>})

(***************************************************************************)
(* The external single-value translator of a version profile               *)
(* (version.get().to_universal / from_universal).  `tr` is its table:      *)
(* tr.plain[n] is what it answers for block n without looking around,      *)
(* tr.probe the relative position it looks at when n is context-dependent  *)
(* and a lookup is given, tr.ctx[n][m] its answer when it sees block m      *)
(* there (anything that is no Block is seen as air).  An answer Raise      *)
(* stands for the translator raising; a lookup that raised goes through it. *)
(***************************************************************************)
translator(tr, block, cb) ==
    LET n     == block.chain[1]
        plain == tr.plain[n]
    IN  IF cb.some /\ plain.extra
        THEN LET answer(nb) ==
                     LET seen == IF nb.value.kind = "Block"
                                 THEN nb.value.chain[1]
                                 ELSE "air"
                     IN  [obj |-> tr.ctx[n][seen], be |-> plain.be,
                          extra |-> TRUE, resolved |-> nb.resolved,
                          failed |-> nb.failed \/ tr.ctx[n][seen] = Raise]
             IN  answer(get_block_at(cb, tr.probe))
        ELSE [obj |-> plain.obj, be |-> plain.be, extra |-> plain.extra,
              resolved |-> {}, failed |-> plain.obj = Raise]

(***************************************************************************)
(* The translate closure of to_universal / from_universal                  *)
(***************************************************************************)
NoResult ==
    [final_block |-> NoneValue, final_block_entity |-> NoBE, final_entities |-> <<>>,
     final_extra |-> FALSE, calls |-> <<>>, resolved |-> {}, failed |-> FALSE]

\* a plausible slip: the block entity of any sub-block is kept, not only depth 0's
translate_step_any_depth(tr, block, depth, cb, id, acc) ==
    LET fold(r) ==
            LET be == IF r.be.some THEN [r.be EXCEPT !.id = id] ELSE NoBE
                a1 == IF r.obj.kind = "Block"
                      THEN [acc EXCEPT
                              !.final_block =
                                  IF @ = NoneValue THEN r.obj ELSE BlockAdd(@, r.obj),
                              !.final_block_entity = IF be.some THEN be ELSE @]
                      ELSE IF r.obj.kind = "Entity"
                      THEN [acc EXCEPT !.final_entities = Append(@, r.obj)]
                      ELSE acc
            IN  IF r.failed
                THEN [acc EXCEPT !.failed = TRUE,
                                 !.calls = Append(@, [block |-> block, lookup |-> cb.k]),
                                 !.resolved = @ \cup r.resolved]
                ELSE [a1 EXCEPT !.final_extra = @ \/ r.extra,
                                !.calls = Append(@, [block |-> block, lookup |-> cb.k]),
                                !.resolved = @ \cup r.resolved]
    IN  fold(translator(tr, block, cb))

\* one iteration of the loop over (base_block,) + extra_blocks; depth is 0-based
translate_step(tr, block, depth, cb, id, acc) ==
    LET fold(r) ==
            LET be == IF r.be.some THEN [r.be EXCEPT !.id = id] ELSE NoBE
                a1 == IF r.obj.kind = "Block"
                      THEN [acc EXCEPT
                              !.final_block =
                                  IF @ = NoneValue THEN r.obj ELSE BlockAdd(@, r.obj),
                              !.final_block_entity = IF depth = 0 THEN be ELSE @]
                      ELSE IF r.obj.kind = "Entity"
                      THEN [acc EXCEPT !.final_entities = Append(@, r.obj)]
                      ELSE acc
            IN  IF r.failed
                THEN [acc EXCEPT !.failed = TRUE,
                                 !.calls = Append(@, [block |-> block, lookup |-> cb.k]),
                                 !.resolved = @ \cup r.resolved]
                ELSE [a1 EXCEPT !.final_extra = @ \/ r.extra,
                                !.calls = Append(@, [block |-> block, lookup |-> cb.k]),
                                !.resolved = @ \cup r.resolved]
    IN  fold(translator(tr, block, cb))

RECURSIVE translate_loop(_, _, _, _, _, _)
translate_loop(tr, blocks, depth, cb, id, acc) ==
    IF depth >= Len(blocks) \/ acc.failed
    THEN acc
    ELSE translate_loop(tr, blocks, depth + 1, cb, id,
                        translate_step(tr, blocks[depth + 1], depth, cb, id, acc))

translate(tr, input_object, cb, id) ==
    IF input_object.kind = "Block"
    THEN translate_loop(tr, <<base_block(input_object)>> \o extra_blocks(input_object),
                        0, cb, id, NoResult)
    ELSE NoResult

(***************************************************************************)
(* Translator._translate                                                   *)
(***************************************************************************)
\* zip(*numpy.where(blocks == i)): the flat positions holding i, in C order
Where(blocks, i) ==
    SelectSeq([k \in 1..Len(blocks) |-> k], LAMBDA k : blocks[k] = i)

\* the in-place += of lines 85-87 / 120-122 by the offsets <<ox, oy, oz>>
offset_block_entity(be, o) ==
    [be EXCEPT !.x = @ + o[1], !.y = @ + o[2], !.z = @ + o[3]]

\* what one voxel adds: (x + chunk.cx * 16, y, z + chunk.cz * 16)
voxel_offset(k, cx, cz) ==
    <<PosOf(k)[1] + cx * ChunkSize, PosOf(k)[2], PosOf(k)[3] + cz * ChunkSize>>

\* the sum of what the voxels voxels[lo..hi] add
RECURSIVE sum_offsets(_, _, _, _, _)
sum_offsets(voxels, lo, hi, cx, cz) ==
    IF lo > hi
    THEN <<0, 0, 0>>
    ELSE IF lo = hi
    THEN voxel_offset(voxels[lo], cx, cz)
    ELSE LET l == sum_offsets(voxels, lo, (lo + hi) \div 2, cx, cz)
             r == sum_offsets(voxels, (lo + hi) \div 2 + 1, hi, cx, cz)
         IN  <<l[1] + r[1], l[2] + r[2], l[3] + r[3]>>

\* lines 84-88: the one instance is moved once per voxel and appended each time,
\* so every appended reference shows the instance as it is after the last voxel
pass1_block_entities(be, voxels, cx, cz) ==
    LET moved == offset_block_entity(be, sum_offsets(voxels, 1, Len(voxels), cx, cz))
    IN  [j \in 1..Len(voxels) |-> moved]

EngineStart ==
    [todo |-> <<>>, finished |-> <<>>, palette_mappings |-> <<>>,
     block_mappings |-> [k \in {} |-> 0], output_block_entities |-> <<>>,
     plain_calls |-> 0, lookup_calls |-> 0, resolved |-> {}, failed |-> FALSE]

\* a plausible slip: every palette entry deferred as soon as a resolver is there
pass1_step_defer_all(c, pal, gcc, tr, i, st) ==
    IF gcc.some
    THEN [st EXCEPT !.plain_calls = @ + 1, !.todo = Append(@, i)]
    ELSE LET register(r, ga) ==
                 [st EXCEPT
                    !.plain_calls = @ + 1,
                    !.finished = ga.blocks,
                    !.palette_mappings = Append(@, <<i, ga.index>>),
                    !.output_block_entities =
                        IF r.final_block_entity.some
                        THEN @ \o pass1_block_entities(r.final_block_entity,
                                                       Where(c.blocks, i), c.cx, c.cz)
                        ELSE @]
             step(r) ==
                 IF r.failed
                 THEN [st EXCEPT !.plain_calls = @ + 1, !.failed = TRUE]
                 ELSE register(r, get_add_block(st.finished, r.final_block))
         IN  step(translate(tr, pal[i + 1], NoCallback, <<1, i>>))

\* a plausible slip: `if extra:` without `and get_chunk_callback`
pass1_step_defer_flagged(c, pal, gcc, tr, i, st) ==
    LET register(r, s, ga) ==
            [s EXCEPT
               !.finished = ga.blocks,
               !.palette_mappings = Append(@, <<i, ga.index>>),
               !.output_block_entities =
                   IF r.final_block_entity.some
                   THEN @ \o pass1_block_entities(r.final_block_entity,
                                                  Where(c.blocks, i), c.cx, c.cz)
                   ELSE @]
        step(r, s) ==
            IF r.failed
            THEN [s EXCEPT !.failed = TRUE]
            ELSE IF r.final_extra
            THEN [s EXCEPT !.todo = Append(@, i)]
            ELSE register(r, s, get_add_block(s.finished, r.final_block))
    IN  step(translate(tr, pal[i + 1], NoCallback, <<1, i>>),
             [st EXCEPT !.plain_calls = @ + 1])

\* lines 78-88: one entry of the input palette
pass1_step(c, pal, gcc, tr, i, st) ==
    LET register(r, s, ga) ==
            [s EXCEPT
               !.finished = ga.blocks,
               !.palette_mappings = Append(@, <<i, ga.index>>),
               !.output_block_entities =
                   IF r.final_block_entity.some
                   THEN @ \o pass1_block_entities(r.final_block_entity,
                                                  Where(c.blocks, i), c.cx, c.cz)
                   ELSE @]
        step(r, s) ==
            IF r.failed
            THEN [s EXCEPT !.failed = TRUE]
            ELSE IF r.final_extra /\ gcc.some
            THEN [s EXCEPT !.todo = Append(@, i)]
            ELSE register(r, s, get_add_block(s.finished, r.final_block))
    IN  step(translate(tr, pal[i + 1], NoCallback, <<1, i>>),
             [st EXCEPT !.plain_calls = @ + 1])

RECURSIVE pass1(_, _, _, _, _, _)
pass1(c, pal, gcc, tr, i, st) ==
    IF i >= Len(pal) \/ st.failed
    THEN st
    ELSE pass1(c, pal, gcc, tr, i + 1, pass1_step(c, pal, gcc, tr, i, st))

\* a plausible slip: the Pass 2 value appended to the palette without the lookup
pass2_step_append(c, pal, gcc, tr, k, st) ==
    LET cb == [some |-> TRUE, k |-> k, chunk |-> c, palette |-> pal,
               get_chunk_callback |-> gcc]
        append(r) ==
            [st EXCEPT
               !.lookup_calls = @ + 1,
               !.resolved = @ \cup r.resolved,
               !.finished = Append(@, r.final_block),
               !.block_mappings = (k :> Len(st.finished)) @@ @,
               !.output_block_entities =
                   IF r.final_block_entity.some
                   THEN Append(@, offset_block_entity(r.final_block_entity,
                                                       voxel_offset(k, c.cx, c.cz)))
                   ELSE @]
        step(r) ==
            IF r.failed
            THEN [st EXCEPT !.lookup_calls = @ + 1, !.resolved = @ \cup r.resolved,
                            !.failed = TRUE]
            ELSE append(r)
    IN  step(translate(tr, pal[c.blocks[k] + 1], cb, <<2, k>>))

\* a plausible slip: one translation per deferred index, shared by all its voxels
pass2_step_shared(c, pal, gcc, tr, k, st) ==
    LET first == Where(c.blocks, c.blocks[k])[1]
        cb == [some |-> TRUE, k |-> first, chunk |-> c, palette |-> pal,
               get_chunk_callback |-> gcc]
        register(r, ga) ==
            [st EXCEPT
               !.lookup_calls = @ + 1,
               !.resolved = @ \cup r.resolved,
               !.finished = ga.blocks,
               !.block_mappings = (k :> ga.index) @@ @,
               !.output_block_entities =
                   IF r.final_block_entity.some
                   THEN Append(@, offset_block_entity(r.final_block_entity,
                                                       voxel_offset(k, c.cx, c.cz)))
                   ELSE @]
        step(r) ==
            IF r.failed
            THEN [st EXCEPT !.lookup_calls = @ + 1, !.resolved = @ \cup r.resolved,
                            !.failed = TRUE]
            ELSE register(r, get_add_block(st.finished, r.final_block))
    IN  step(translate(tr, pal[c.blocks[k] + 1], cb, <<2, k>>))

\* lines 117-124: one voxel of a deferred index
pass2_step(c, pal, gcc, tr, k, st) ==
    LET cb == [some |-> TRUE, k |-> k, chunk |-> c, palette |-> pal,
               get_chunk_callback |-> gcc]
        register(r, ga) ==
            [st EXCEPT
               !.lookup_calls = @ + 1,
               !.resolved = @ \cup r.resolved,
               !.finished = ga.blocks,
               !.block_mappings = (k :> ga.index) @@ @,
               !.output_block_entities =
                   IF r.final_block_entity.some
                   THEN Append(@, offset_block_entity(r.final_block_entity,
                                                       voxel_offset(k, c.cx, c.cz)))
                   ELSE @]
        step(r) ==
            IF r.failed
            THEN [st EXCEPT !.lookup_calls = @ + 1, !.resolved = @ \cup r.resolved,
                            !.failed = TRUE]
            ELSE register(r, get_add_block(st.finished, r.final_block))
    IN  step(translate(tr, pal[c.blocks[k] + 1], cb, <<2, k>>))

\* lines 91-92: the voxels of the deferred indices, in the order they are visited
RECURSIVE todo_voxels(_, _, _)
todo_voxels(blocks, todo, t) ==
    IF t > Len(todo)
    THEN <<>>
    ELSE Where(blocks, todo[t]) \o todo_voxels(blocks, todo, t + 1)

\* lines 91-124 over voxels[lo..hi], in order, up to the first call that raises
RECURSIVE pass2_range(_, _, _, _, _, _, _, _)
pass2_range(c, pal, gcc, tr, voxels, lo, hi, st) ==
    IF lo > hi \/ st.failed
    THEN st
    ELSE IF lo = hi
    THEN pass2_step(c, pal, gcc, tr, voxels[lo], st)
    ELSE LET first == pass2_range(c, pal, gcc, tr, voxels, lo, (lo + hi) \div 2, st)
         IN  IF first.lookup_calls > 0 /\ ~first.failed
             THEN pass2_range(c, pal, gcc, tr, voxels, (lo + hi) \div 2 + 1, hi, first)
             ELSE first

pass2(c, pal, gcc, tr, st) ==
    LET voxels == todo_voxels(c.blocks, st.todo, 1)
    IN  pass2_range(c, pal, gcc, tr, voxels, 1, Len(voxels), st)

\* lines 126-127: chunk.blocks[chunk.blocks == old] = new, one mapping after another
RECURSIVE apply_palette_mappings(_, _, _)
apply_palette_mappings(blocks, mappings, n) ==
    IF n > Len(mappings)
    THEN blocks
    ELSE apply_palette_mappings(
             [k \in 1..Len(blocks) |->
                 IF blocks[k] = mappings[n][1] THEN mappings[n][2] ELSE blocks[k]],
             mappings, n + 1)

\* lines 128-129: chunk.blocks[x, y, z] = new; block_mappings is the dict, a
\* function from the deferred voxels' positions to their new index
apply_block_mappings(blocks, mappings) ==
    [k \in 1..Len(blocks) |-> IF k \in DOMAIN mappings THEN mappings[k] ELSE blocks[k]]

\* a plausible slip: only the deferred voxels rewritten, the bulk step forgotten
finalize_deferred_only(blocks, palette_mappings, block_mappings) ==
    apply_block_mappings(blocks, block_mappings)

\* a plausible slip: the per-voxel results written before the bulk substitutions
finalize_bulk_last(blocks, palette_mappings, block_mappings) ==
    apply_palette_mappings(apply_block_mappings(blocks, block_mappings),
                           palette_mappings, 1)

\* lines 126-129
finalize(blocks, palette_mappings, block_mappings) ==
    apply_block_mappings(apply_palette_mappings(blocks, palette_mappings, 1),
                         block_mappings)

\* the state of the engine's locals when line 126 is reached
engine_locals(c, pal, gcc, tr) ==
    pass2(c, pal, gcc, tr, pass1(c, pal, gcc, tr, 0, EngineStart))

\* a plausible slip: the full_translate flag not looked at
_translate_always(c, pal, gcc, tr, full) ==
    LET result(st) ==
            IF st.failed
            THEN [chunk |-> c, palette |-> pal, plain_calls |-> st.plain_calls,
                  lookup_calls |-> st.lookup_calls, resolved |-> st.resolved,
                  failed |-> TRUE]
            ELSE [chunk |-> [c EXCEPT
                               !.blocks = finalize(@, st.palette_mappings,
                                                   st.block_mappings),
                               !.block_entities = st.output_block_entities],
                  palette |-> st.finished,
                  plain_calls |-> st.plain_calls,
                  lookup_calls |-> st.lookup_calls,
                  resolved |-> st.resolved,
                  failed |-> FALSE]
    IN  result(engine_locals(c, pal, gcc, tr))

\* lines 68-131; the result carries the call counts beside (chunk, palette), and
\* failed when an exception left the method: the chunk is then as the caller
\* finds it, nothing of lines 126-130 having run
_translate(c, pal, gcc, tr, full) ==
    IF ~full
    THEN [chunk |-> c, palette |-> pal, plain_calls |-> 0, lookup_calls |-> 0,
          resolved |-> {}, failed |-> FALSE]
    ELSE LET result(st) ==
                 IF st.failed
                 THEN [chunk |-> c, palette |-> pal, plain_calls |-> st.plain_calls,
                       lookup_calls |-> st.lookup_calls, resolved |-> st.resolved,
                       failed |-> TRUE]
                 ELSE [chunk |-> [c EXCEPT
                                    !.blocks = finalize(@, st.palette_mappings,
                                                        st.block_mappings),
                                    !.block_entities = st.output_block_entities],
                       palette |-> st.finished,
                       plain_calls |-> st.plain_calls,
                       lookup_calls |-> st.lookup_calls,
                       resolved |-> st.resolved,
                       failed |-> FALSE]
         IN  result(engine_locals(c, pal, gcc, tr))

(***************************************************************************)
(* Biomes, block-entity names and the directional wrappers                 *)
(***************************************************************************)
\* numpy.unique(biome_array, return_inverse=True): the sorted distinct values and,
\* for every entry, the (0-based) position of its value among them
numpy_unique(biome_array) ==
    LET values == {biome_array[i] : i \in 1..Len(biome_array)}
        sorted == [j \in 1..Cardinality(values) |->
                      CHOOSE v \in values : Cardinality({w \in values : w < v}) = j - 1]
    IN  [palette |-> sorted,
         inverse |-> [i \in 1..Len(biome_array) |->
                         (CHOOSE j \in 1..Len(sorted) : sorted[j] = biome_array[i]) - 1]]

\* a plausible slip: the translator run on every entry of the array
translate_biomes_per_entry(biome_translator, biome_array) ==
    [array |-> [i \in 1..Len(biome_array) |-> biome_translator[biome_array[i]]],
     calls |-> biome_array]

\* lines 276-278 / 281-283 with the biome translator `biome_translator`; the result
\* carries the values the translator was invoked with, in order
translate_biomes(biome_translator, biome_array) ==
    LET expand(u) ==
            LET universal_biome_palette ==
                    [j \in 1..Len(u.palette) |-> biome_translator[u.palette[j]]]
            IN  [array |-> [i \in 1..Len(biome_array) |->
                               universal_biome_palette[u.inverse[i] + 1]],
                 calls |-> u.palette]
    IN  expand(numpy_unique(biome_array))

_biomes_to_universal(translator_version, biome_array) ==
    translate_biomes(translator_version.biomes_to_universal, biome_array)

_biomes_from_universal(translator_version, biome_array) ==
    translate_biomes(translator_version.biomes_from_universal, biome_array)

\* the base class returns the palette as it is
_unpack_palette(version, pal) == pal

_pack_palette(version, pal) == pal

\* lines 193-197: block entities without a namespace get their universal name
rename_to_universal(version, block_entities) ==
    IF ~version.block_entity_map.some
    THEN block_entities
    ELSE [n \in 1..Len(block_entities) |->
             LET be == block_entities[n]
             IN  IF be.namespace = "" /\ be.base_name \in DOMAIN version.block_entity_map.map
                 THEN [be EXCEPT !.namespace = version.block_entity_map.map[be.base_name][1],
                                 !.base_name = version.block_entity_map.map[be.base_name][2]]
                 ELSE be]

\* lines 268-272: and get the version's name back
rename_from_universal(version, block_entities) ==
    IF ~version.block_entity_map.some
    THEN block_entities
    ELSE [n \in 1..Len(block_entities) |->
             LET be   == block_entities[n]
                 name == <<be.namespace, be.base_name>>
             IN  IF name \in DOMAIN version.block_entity_map_inverse
                 THEN [be EXCEPT !.namespace = version.block_entity_map_inverse[name][1],
                                 !.base_name = version.block_entity_map_inverse[name][2]]
                 ELSE be]

\* lines 191-200; when _translate raises, the chunk stays as lines 192-197 left it
to_universal(version, c, pal, gcc, full) ==
    LET done(b, r) ==
            [chunk |-> r.chunk, palette |-> r.palette, plain_calls |-> r.plain_calls,
             lookup_calls |-> r.lookup_calls, resolved |-> r.resolved,
             biome_calls |-> b.calls, failed |-> r.failed]
        prepared(b) ==
            done(b, _translate([c EXCEPT !.biomes = b.array,
                                         !.block_entities = rename_to_universal(version, @)],
                               _unpack_palette(version, pal), gcc, version.to_universal,
                               full))
    IN  prepared(_biomes_to_universal(version, c.biomes))

\* lines 263-273; when _translate raises, nothing after it runs
from_universal(version, c, pal, gcc, full) ==
    LET done(r, b) ==
            [chunk |-> [r.chunk EXCEPT
                          !.biomes = b.array,
                          !.block_entities = rename_from_universal(version, @)],
             palette |-> _pack_palette(version, r.palette),
             plain_calls |-> r.plain_calls, lookup_calls |-> r.lookup_calls,
             resolved |-> r.resolved, biome_calls |-> b.calls, failed |-> FALSE]
        translated(r) ==
            IF r.failed
            THEN [chunk |-> r.chunk, palette |-> r.palette,
                  plain_calls |-> r.plain_calls, lookup_calls |-> r.lookup_calls,
                  resolved |-> r.resolved, biome_calls |-> <<>>, failed |-> TRUE]
            ELSE done(r, _biomes_from_universal(version, r.chunk.biomes))
    IN  translated(_translate(c, pal, gcc, version.from_universal, full))

(***************************************************************************)
(* Inputs: the chunks, palettes, resolvers and version profiles explored   *)
(***************************************************************************)
Air == Blk(<<"air">>)

\* the blocks the explored palettes hold beside air
PaletteBlocks == {Blk(<<"a">>), Blk(<<"b">>)}

\* palettes start with air, as the palettes of the decoders do
Palettes ==
    UNION {{<<Air>> \o rest : rest \in [1..n -> PaletteBlocks]} :
              n \in 0..(MaxPalette - 1)}

\* the voxels whose index is chosen freely; every other voxel holds air (index 0)
CellA == FlatOf(ChunkSize - 2, 0, 0)

CellB == FlatOf(ChunkSize - 1, 0, 0)

Blocks(a, b) ==
    [k \in 1..Volume |-> IF k = CellA THEN a ELSE IF k = CellB THEN b ELSE 0]

Origins == {<<1, -1>>}

Chest == BlockEntityAt(<<0, 0>>, "universal", "chest", 0, 0, 0)

Chunks(n) ==
    {[cx |-> o[1], cz |-> o[2], blocks |-> Blocks(a, b), biomes |-> <<>>,
      block_entities |-> <<>>] :
        o \in Origins, a \in 0..(n - 1), b \in 0..(n - 1)}

WorldCoords == (-2..2) \X (-2..2)

World == [c \in WorldCoords |-> IF c[1] = 1 THEN "a" ELSE "b"]

\* neighbour chunks of one block each, without block entities
NoMarks == [c \in WorldCoords |-> {}]

NoEntities == [c \in WorldCoords |-> <<>>]

NoResolver ==
    [some |-> FALSE, world |-> World, marks |-> NoMarks, entities |-> NoEntities,
     fails |-> {}]

Resolver ==
    [some |-> TRUE, world |-> World, marks |-> NoMarks, entities |-> NoEntities,
     fails |-> {}]

\* an object the table leaves as it is
SelfAnswer(n) ==
    [obj |-> IF n \in EntityNames THEN Ent(n) ELSE Blk(<<n>>), be |-> NoBE,
     extra |-> FALSE]

\* what a table may answer for a block it does not flag
FreeAnswers ==
    {[obj |-> Blk(<<"a">>), be |-> NoBE, extra |-> FALSE],
     [obj |-> Blk(<<"b">>), be |-> Chest, extra |-> FALSE],
     [obj |-> Ent("e"), be |-> NoBE, extra |-> FALSE]}

\* ... and for a block it flags as context-dependent
FlaggedAnswers ==
    {[obj |-> Blk(<<"a">>), be |-> NoBE, extra |-> TRUE],
     [obj |-> Blk(<<"b">>), be |-> Chest, extra |-> TRUE]}

Plain(a, b) ==
    [n \in Objects |-> IF n = "a" THEN a ELSE IF n = "b" THEN b ELSE SelfAnswer(n)]

\* answers of a flagged block by what it sees: the neighbour itself, or another block
SeeSame == [m \in Names |-> Blk(<<m>>)]

SeeOther == [m \in Names |-> IF m = "a" THEN Blk(<<"b">>) ELSE Blk(<<"a">>)]

Looks == {[probe |-> <<1, 0, 0>>, row |-> SeeSame],
          [probe |-> <<0, 0, -1>>, row |-> SeeOther]}

Table(plain, look) ==
    [plain |-> plain, probe |-> look.probe, ctx |-> [n \in Objects |-> look.row]]

\* tables that flag nothing (they never look around) ...
FreeTables ==
    {Table(Plain(a, b), [probe |-> <<1, 0, 0>>, row |-> SeeSame]) :
        a \in FreeAnswers, b \in FreeAnswers}

\* ... and tables that flag "a", and maybe "b"
FlaggingTables ==
    {Table(Plain(a, b), look) :
        a \in FlaggedAnswers, b \in FreeAnswers \cup FlaggedAnswers, look \in Looks}

Translators == FreeTables \cup FlaggingTables

BiomeIds == {1, 2, 3}

SameBiome == [v \in BiomeIds |-> v]

\* the rename table of the version and its inverse
ChestMap == [n \in {"Chest"} |-> <<"universal", "chest">>]

ChestMapInverse == [n \in {<<"universal", "chest">>} |-> <<"", "Chest">>]

Version(to, from, biomes_to, biomes_from) ==
    [to_universal |-> to, from_universal |-> from,
     biomes_to_universal |-> biomes_to, biomes_from_universal |-> biomes_from,
     block_entity_map |-> [some |-> TRUE, map |-> ChestMap],
     block_entity_map_inverse |-> ChestMapInverse]

ProfileOf(t) == Version(t, t, SameBiome, SameBiome)

\* the variables of the calls that a behaviour does not make
NoFold == fold_in = NoneValue /\ fold_lookup = 0 /\ fold_out = NoResult

NoLooked == [value |-> NoneValue, be |-> NoBE, resolved |-> {}, failed |-> FALSE]

NoLook == look_at = [k |-> 0, pos |-> <<0, 0, 0>>] /\ looked = NoLooked

NoCalls ==
    /\ full_translate = FALSE
    /\ plain_calls = 0
    /\ lookup_calls = 0
    /\ resolved = {}
    /\ biome_calls = <<>>

\* no RAMEntry has been constructed
NoEntryCall ==
    [op |-> "none", entry |-> "", raised |-> FALSE, revisions |-> <<>>, index |-> 0,
     saved |-> 0]

NoHistory ==
    /\ _revisions = <<>>
    /\ _current_revision_index = 0
    /\ _saved_revision_index = 0
    /\ entry_call = NoEntryCall
    /\ stamps = <<>>
    /\ stored = 0
    /\ saved_stamp = 0

\* no SubBox has been constructed; a result is the one-element <<returned>>
NoBoxResult == <<>>

NoBox ==
    /\ box_self = <<<<0, 0, 0>>, <<0, 0, 0>>>>
    /\ box_other = <<<<0, 0, 0>>, <<0, 0, 0>>>>
    /\ box_result = NoBoxResult

\* no SelectionBox has been constructed
NoAddBoxCall ==
    [other |-> <<<<0, 0, 0>>, <<0, 0, 0>>>>, do_merge_check |-> FALSE, boxes |-> <<>>,
     calls |-> 0]

NoSelection ==
    /\ _boxes = <<>>
    /\ add_box_call = NoAddBoxCall

\* no SchematicFormatWrapper has been constructed
NoFile == [exists |-> FALSE, platform |-> "", selection |-> <<>>]

NoData == [kind |-> "None", platform |-> "", selection |-> <<>>]

NoWrapperCall == [op |-> "none", value |-> <<>>, raised |-> FALSE, logged |-> FALSE]

NoWrapper ==
    /\ _mode = ""
    /\ _open = FALSE
    /\ _platform = ""
    /\ _version = <<>>
    /\ _selection = <<>>
    /\ _data = NoData
    /\ schematic_file = NoFile
    /\ wrapper_call = NoWrapperCall
    /\ at_open = <<>>

(***************************************************************************)
(* Calling the engine                                                      *)
(***************************************************************************)
Init ==
    /\ NoLook
    /\ NoHistory
    /\ NoBox
    /\ NoSelection
    /\ NoWrapper
    /\ pc = "ready"
    /\ palette \in Palettes
    /\ chunk \in Chunks(Len(palette))
    /\ chunk0 = chunk
    /\ palette0 = palette
    /\ profile \in {ProfileOf(t) : t \in Translators}
    /\ get_chunk_callback \in {NoResolver, Resolver}
    /\ NoCalls
    /\ NoFold

\* translator._translate(chunk, palette, get_chunk_callback, translate, full)
Translate(full) ==
    /\ pc = "ready"
    /\ \E r \in {_translate(chunk, palette, get_chunk_callback, profile.to_universal, full)} :
           /\ chunk' = r.chunk
           /\ palette' = r.palette
           /\ plain_calls' = r.plain_calls
           /\ lookup_calls' = r.lookup_calls
           /\ resolved' = r.resolved
           /\ pc' = IF r.failed THEN "failed" ELSE "translated"
    /\ full_translate' = full
    /\ UNCHANGED <<chunk0, palette0, profile, get_chunk_callback, fold_in, fold_lookup,
                   fold_out, biome_calls, look_at, looked,
                   _revisions, _current_revision_index, _saved_revision_index,
                   entry_call, stamps, stored, saved_stamp,
                   box_self, box_other, box_result,
                   _boxes, add_box_call, _mode, _open, _platform, _version,
                   _selection, _data, schematic_file, wrapper_call, at_open>>

Next == \E full \in BOOLEAN : Translate(full)

Spec == Init /\ [][Next]_vars

(***************************************************************************)
(* Properties of a full pass of the engine                                 *)
(***************************************************************************)
FullPassDone == pc = "translated" /\ full_translate

Voxels == 1..Volume

\* the translator flags palette index i as context-dependent
Flagged(i) ==
    translate(profile.to_universal, palette0[i + 1], NoCallback, <<1, i>>).final_extra

DeferredIndices ==
    {i \in 0..(Len(palette0) - 1) : get_chunk_callback.some /\ Flagged(i)}

\* the lookup closure bound to the voxel at flat position k
LookupOf(k) ==
    [some |-> TRUE, k |-> k, chunk |-> chunk0, palette |-> palette0,
     get_chunk_callback |-> get_chunk_callback]

\* what the translator answers for voxel k when it may look around from k
OwnValue(k) ==
    translate(profile.to_universal, palette0[chunk0.blocks[k] + 1], LookupOf(k),
              <<2, k>>).final_block

\* what the translator answers for palette index i without a lookup
PlainValue(i) ==
    translate(profile.to_universal, palette0[i + 1], NoCallback, <<1, i>>).final_block

ValueAt(k) ==
    IF chunk.blocks[k] \in 0..(Len(palette) - 1)
    THEN palette[chunk.blocks[k] + 1]
    ELSE [kind |-> "OutOfRange", chain |-> <<>>]

\* C1: after a full pass the returned palette holds no value at two indices,
\* values found in Pass 2 included
C1_Dedup ==
    FullPassDone =>
        \A i, j \in 1..Len(palette) : palette[i] = palette[j] => i = j

\* a Pass 2 result met a value Pass 1 had registered: only air is in the palette
C1_Witness ==
    FullPassDone /\ lookup_calls > 0 /\ plain_calls > 1 /\ Len(palette) = 1

\* C2: after a full pass every voxel holds an index of the returned palette
C2_IndexValidity ==
    FullPassDone =>
        \A k \in Voxels : chunk.blocks[k] >= 0 /\ chunk.blocks[k] < Len(palette)

\* the palette shrank below an index some voxel held before the pass
C2_Witness ==
    /\ FullPassDone
    /\ \E k \in Voxels : chunk0.blocks[k] >= Len(palette)

\* C3: with a resolver, every voxel of a flagged index is translated on its own:
\* it ends at its own value, and two voxels of one index whose values differ end
\* at different indices
C3_Deferral ==
    FullPassDone =>
        \A i \in DeferredIndices :
            \A k1 \in Voxels :
                chunk0.blocks[k1] = i =>
                    /\ ValueAt(k1) = OwnValue(k1)
                    /\ \A k2 \in Voxels :
                           (chunk0.blocks[k2] = i /\ OwnValue(k1) # OwnValue(k2))
                               => chunk.blocks[k1] # chunk.blocks[k2]

\* both free voxels hold the same flagged index and got different values
C3_Witness ==
    /\ FullPassDone
    /\ chunk0.blocks[CellA] = chunk0.blocks[CellB]
    /\ chunk0.blocks[CellA] \in DeferredIndices
    /\ OwnValue(CellA) # OwnValue(CellB)
    /\ chunk.blocks[CellA] # chunk.blocks[CellB]

\* C4: after finalization every deferred voxel holds the index registered for its
\* own Pass 2 result, whatever the bulk substitutions did to the array
C4_FinalizationOrder ==
    FullPassDone =>
        \A st \in {engine_locals(chunk0, palette0, get_chunk_callback, profile.to_universal)} :
            \A k \in DOMAIN st.block_mappings : chunk.blocks[k] = st.block_mappings[k]

\* a deferred voxel whose Pass 2 index is an old index that the bulk step replaces
\* by another one
C4_Witness ==
    /\ FullPassDone
    /\ \E st \in {engine_locals(chunk0, palette0, get_chunk_callback, profile.to_universal)} :
           \E k \in DOMAIN st.block_mappings :
               \E n \in 1..Len(st.palette_mappings) :
                   /\ st.palette_mappings[n][1] = st.block_mappings[k]
                   /\ st.palette_mappings[n][2] # st.block_mappings[k]

OtherResolver == IF get_chunk_callback.some THEN NoResolver ELSE Resolver

\* C5: when no palette entry is flagged, the pass gives the same voxel array,
\* palette and block entities with and without a resolver, and calls no resolver
C5_NoResolverFallback ==
    (FullPassDone /\ \A i \in 0..(Len(palette0) - 1) : ~Flagged(i)) =>
        \A r \in {_translate(chunk0, palette0, OtherResolver, profile.to_universal, TRUE)} :
            /\ r.chunk = chunk
            /\ r.palette = palette
            /\ r.resolved = {} /\ resolved = {}
            /\ r.lookup_calls = 0 /\ lookup_calls = 0

\* a pass with a resolver over a palette with nothing flagged, block entities made
C5_Witness ==
    /\ FullPassDone
    /\ get_chunk_callback.some
    /\ \A i \in 0..(Len(palette0) - 1) : ~Flagged(i)
    /\ Len(chunk.block_entities) > 0
    /\ Len(palette) > 1

\* C6: without a resolver nothing is deferred, no lookup is handed to the
\* translator, and every voxel ends at the plain translation of its palette entry
C6_NoResolverDegrades ==
    (FullPassDone /\ ~get_chunk_callback.some) =>
        /\ lookup_calls = 0
        /\ resolved = {}
        /\ plain_calls = Len(palette0)
        /\ \A i \in 0..(Len(palette0) - 1) :
               \A v \in {PlainValue(i)} :
                   \A k \in Voxels : chunk0.blocks[k] = i => ValueAt(k) = v

\* no resolver, and a voxel holds a flagged index
C6_Witness ==
    /\ FullPassDone
    /\ ~get_chunk_callback.some
    /\ Flagged(chunk0.blocks[CellA])
    /\ ValueAt(CellA) = PlainValue(chunk0.blocks[CellA])

\* C7: with full_translate false the pass returns the chunk and the palette it
\* was given, unchanged, and calls neither the translator nor the resolver
C7_FlagFalseNoOp ==
    (pc = "translated" /\ ~full_translate) =>
        /\ chunk = chunk0
        /\ palette = palette0
        /\ plain_calls = 0
        /\ lookup_calls = 0
        /\ resolved = {}

\* a call without the flag on a chunk that a full pass would change
C7_Witness ==
    /\ pc = "translated"
    /\ ~full_translate
    /\ chunk = chunk0
    /\ _translate(chunk0, palette0, get_chunk_callback, profile.to_universal, TRUE).palette
           # palette0

(***************************************************************************)
(* The translate closure on composite blocks                               *)
(***************************************************************************)
Chains == UNION {[1..n -> {"a", "b"}] : n \in 1..(MaxExtra + 1)}

FoldInputs == {Blk(chain) : chain \in Chains}

\* a table may also answer with a block that has an extra block of its own
LayeredAnswer == [obj |-> Blk(<<"b", "c">>), be |-> Chest, extra |-> FALSE]

FoldAnswers == FreeAnswers \cup FlaggedAnswers \cup {LayeredAnswer}

FoldTables ==
    {Table(Plain(a, b), look) : a \in FoldAnswers, b \in FoldAnswers, look \in Looks}

\* the table of the other direction: the answers for "a" and "b" exchanged
Mirror(t) ==
    Table(Plain(t.plain["b"], t.plain["a"]), [probe |-> t.probe, row |-> t.ctx["a"]])

FoldProfiles == {Version(t, Mirror(t), SameBiome, SameBiome) : t \in FoldTables}

InitFold ==
    /\ NoLook
    /\ NoHistory
    /\ NoBox
    /\ NoSelection
    /\ NoWrapper
    /\ pc = "ready"
    /\ palette = <<Air, Blk(<<"a">>)>>
    /\ chunk \in Chunks(Len(palette))
    /\ chunk0 = chunk
    /\ palette0 = palette
    /\ profile \in FoldProfiles
    /\ get_chunk_callback = Resolver
    /\ NoCalls
    /\ fold_in \in FoldInputs
    /\ fold_lookup = 0
    /\ fold_out = NoResult

\* the lookup handed to the closure: none (k = 0), or get_block_at of voxel k
FoldLookup(k) ==
    [some |-> k # 0, k |-> k, chunk |-> chunk, palette |-> palette,
     get_chunk_callback |-> get_chunk_callback]

FoldId == <<3, 0>>

\* translate(input_object, get_block_callback) of to_universal (lines 156-189)
FoldToUniversal(k) ==
    /\ pc = "ready"
    /\ fold_out' = translate(profile.to_universal, fold_in, FoldLookup(k), FoldId)
    /\ fold_lookup' = k
    /\ pc' = "folded_to_universal"
    /\ UNCHANGED <<chunk, palette, chunk0, palette0, profile, get_chunk_callback,
                   full_translate, plain_calls, lookup_calls, resolved, fold_in,
                   biome_calls, look_at, looked,
                   _revisions, _current_revision_index, _saved_revision_index,
                   entry_call, stamps, stored, saved_stamp,
                   box_self, box_other, box_result,
                   _boxes, add_box_call, _mode, _open, _platform, _version,
                   _selection, _data, schematic_file, wrapper_call, at_open>>

\* translate(input_object, get_block_callback) of from_universal (lines 228-261)
FoldFromUniversal(k) ==
    /\ pc = "ready"
    /\ fold_out' = translate(profile.from_universal, fold_in, FoldLookup(k), FoldId)
    /\ fold_lookup' = k
    /\ pc' = "folded_from_universal"
    /\ UNCHANGED <<chunk, palette, chunk0, palette0, profile, get_chunk_callback,
                   full_translate, plain_calls, lookup_calls, resolved, fold_in,
                   biome_calls, look_at, looked,
                   _revisions, _current_revision_index, _saved_revision_index,
                   entry_call, stamps, stored, saved_stamp,
                   box_self, box_other, box_result,
                   _boxes, add_box_call, _mode, _open, _platform, _version,
                   _selection, _data, schematic_file, wrapper_call, at_open>>

NextFold ==
    \E k \in {0, CellA, CellB} : FoldToUniversal(k) \/ FoldFromUniversal(k)

SpecFold == InitFold /\ [][NextFold]_vars

Folded == pc \in {"folded_to_universal", "folded_from_universal"}

FoldTable ==
    IF pc = "folded_to_universal" THEN profile.to_universal ELSE profile.from_universal

\* what the single-value translator answers for the sub-block at depth d (0-based)
SubAnswer(d) ==
    translator(FoldTable, Blk(<<fold_in.chain[d + 1]>>), FoldLookup(fold_lookup))

\* the chains of the Block answers for depths 0..d, one after the other
RECURSIVE LayersUpTo(_)
LayersUpTo(d) ==
    IF d < 0
    THEN <<>>
    ELSE LayersUpTo(d - 1) \o
         (IF SubAnswer(d).obj.kind = "Block" THEN SubAnswer(d).obj.chain ELSE <<>>)

FoldDepths == 0..(Len(fold_in.chain) - 1)

\* C8: the closure calls the translator once per sub-block, in order and with the
\* one lookup; the result is the translated blocks layered in order, the block
\* entity is the one of depth zero, the flag the OR of the sub-blocks' flags
C8_CompositeFolding ==
    Folded =>
        /\ fold_out.calls =
               [n \in 1..Len(fold_in.chain) |->
                   [block |-> Blk(<<fold_in.chain[n]>>), lookup |-> fold_lookup]]
        /\ fold_out.final_block =
               (IF LayersUpTo(Len(fold_in.chain) - 1) = <<>>
                THEN NoneValue
                ELSE Blk(LayersUpTo(Len(fold_in.chain) - 1)))
        /\ fold_out.final_block_entity =
               (IF SubAnswer(0).be.some THEN [SubAnswer(0).be EXCEPT !.id = FoldId] ELSE NoBE)
        /\ fold_out.final_extra = (\E d \in FoldDepths : SubAnswer(d).extra)

\* a block with an extra block, folded with a lookup: only the extra block's
\* translation comes with a block entity and a flag, and two blocks are layered
C8_Witness ==
    /\ Folded
    /\ Len(fold_in.chain) = 2
    /\ fold_lookup # 0
    /\ ~SubAnswer(0).be.some /\ SubAnswer(1).be.some
    /\ ~SubAnswer(0).extra /\ SubAnswer(1).extra
    /\ ~fold_out.final_block_entity.some
    /\ fold_out.final_extra
    /\ fold_out.final_block = BlockAdd(SubAnswer(0).obj, SubAnswer(1).obj)

(***************************************************************************)
(* Biome re-indexing                                                       *)
(***************************************************************************)
BiomeArrays == UNION {[1..n -> BiomeIds] : n \in 0..MaxBiomes}

BiomeMaps == [BiomeIds -> BiomeIds]

\* the biome translator of the other direction: another map
Shifted(f) == [v \in BiomeIds |-> f[(v % Cardinality(BiomeIds)) + 1]]

PlainTable ==
    Table(Plain(SelfAnswer("a"), SelfAnswer("b")), [probe |-> <<1, 0, 0>>, row |-> SeeSame])

BiomeProfiles == {Version(PlainTable, PlainTable, f, Shifted(f)) : f \in BiomeMaps}

InitBiomes ==
    /\ NoLook
    /\ NoHistory
    /\ NoBox
    /\ NoSelection
    /\ NoWrapper
    /\ pc = "ready"
    /\ palette = <<Air>>
    /\ chunk \in {[cx |-> 0, cz |-> 0, blocks |-> Blocks(0, 0), biomes |-> b,
                   block_entities |-> <<>>] : b \in BiomeArrays}
    /\ chunk0 = chunk
    /\ palette0 = palette
    /\ profile \in BiomeProfiles
    /\ get_chunk_callback = NoResolver
    /\ NoCalls
    /\ NoFold

\* chunk.biomes = self._biomes_to_universal(version, chunk.biomes)
BiomesToUniversal ==
    /\ pc = "ready"
    /\ \E r \in {_biomes_to_universal(profile, chunk.biomes)} :
           /\ chunk' = [chunk EXCEPT !.biomes = r.array]
           /\ biome_calls' = r.calls
    /\ pc' = "biomes_to_universal"
    /\ UNCHANGED <<palette, chunk0, palette0, profile, get_chunk_callback,
                   full_translate, plain_calls, lookup_calls, resolved, fold_in,
                   fold_lookup, fold_out, look_at, looked,
                   _revisions, _current_revision_index, _saved_revision_index,
                   entry_call, stamps, stored, saved_stamp,
                   box_self, box_other, box_result,
                   _boxes, add_box_call, _mode, _open, _platform, _version,
                   _selection, _data, schematic_file, wrapper_call, at_open>>

\* chunk.biomes = self._biomes_from_universal(version, chunk.biomes)
BiomesFromUniversal ==
    /\ pc = "ready"
    /\ \E r \in {_biomes_from_universal(profile, chunk.biomes)} :
           /\ chunk' = [chunk EXCEPT !.biomes = r.array]
           /\ biome_calls' = r.calls
    /\ pc' = "biomes_from_universal"
    /\ UNCHANGED <<palette, chunk0, palette0, profile, get_chunk_callback,
                   full_translate, plain_calls, lookup_calls, resolved, fold_in,
                   fold_lookup, fold_out, look_at, looked,
                   _revisions, _current_revision_index, _saved_revision_index,
                   entry_call, stamps, stored, saved_stamp,
                   box_self, box_other, box_result,
                   _boxes, add_box_call, _mode, _open, _platform, _version,
                   _selection, _data, schematic_file, wrapper_call, at_open>>

NextBiomes == BiomesToUniversal \/ BiomesFromUniversal

SpecBiomes == InitBiomes /\ [][NextBiomes]_vars

BiomesDone == pc \in {"biomes_to_universal", "biomes_from_universal"}

BiomeTranslator ==
    IF pc = "biomes_to_universal"
    THEN profile.biomes_to_universal
    ELSE profile.biomes_from_universal

BiomesBefore == {chunk0.biomes[i] : i \in 1..Len(chunk0.biomes)}

\* C9: the translated biome array holds f(v) wherever the array held v, and f was
\* invoked exactly once for every distinct value of the array, in both directions
C9_BiomeReindexing ==
    BiomesDone =>
        /\ Len(chunk.biomes) = Len(chunk0.biomes)
        /\ \A i \in 1..Len(chunk0.biomes) :
               chunk.biomes[i] = BiomeTranslator[chunk0.biomes[i]]
        /\ Len(biome_calls) = Cardinality(BiomesBefore)
        /\ {biome_calls[j] : j \in 1..Len(biome_calls)} = BiomesBefore

\* [1, 1, 2] translated by a map that tells 1 and 2 apart: two invocations
C9_Witness ==
    /\ BiomesDone
    /\ chunk0.biomes = <<1, 1, 2>>
    /\ BiomeTranslator[1] # BiomeTranslator[2]
    /\ chunk.biomes = <<BiomeTranslator[1], BiomeTranslator[1], BiomeTranslator[2]>>
    /\ Len(biome_calls) = 2

(***************************************************************************)
(* to_universal followed by from_universal                                 *)
(***************************************************************************)
Answer(obj) == [obj |-> obj, be |-> NoBE, extra |-> FALSE]

FirstLook == [probe |-> <<1, 0, 0>>, row |-> SeeSame]

\* a <-> b
SwapTable ==
    Table(Plain([obj |-> Blk(<<"b">>), be |-> Chest, extra |-> FALSE],
                Answer(Blk(<<"a">>))), FirstLook)

\* "a" becomes "a" beside air and "c" beside anything else; both come back as "a"
BesideTable ==
    Table(Plain([obj |-> Blk(<<"a">>), be |-> NoBE, extra |-> TRUE], SelfAnswer("b")),
          [probe |-> <<1, 0, 0>>,
           row |-> [m \in Names |-> IF m = "air" THEN Blk(<<"a">>) ELSE Blk(<<"c">>)]])

BesideBack ==
    [PlainTable EXCEPT !.plain["c"] = Answer(Blk(<<"a">>))]

\* the block "a" is the entity "e" in the universal format, and back
EntityTable == Table(Plain(Answer(Ent("e")), SelfAnswer("b")), FirstLook)

EntityBack == [PlainTable EXCEPT !.plain["e"] = Answer(Blk(<<"a">>))]

TablePairs ==
    {<<PlainTable, PlainTable>>, <<SwapTable, SwapTable>>, <<BesideTable, BesideBack>>,
     <<EntityTable, EntityBack>>}

NextBiome == [v \in BiomeIds |-> (v % Cardinality(BiomeIds)) + 1]

PreviousBiome == [v \in BiomeIds |-> ((v + 1) % Cardinality(BiomeIds)) + 1]

BiomePairs == {<<SameBiome, SameBiome>>, <<NextBiome, PreviousBiome>>}

RoundTripProfiles ==
    {Version(t[1], t[2], b[1], b[2]) : t \in TablePairs, b \in BiomePairs}

\* a chest of the version's format at the voxel CellA
ChestAtCellA(o) ==
    BlockEntityAt(<<0, 1>>, "", "Chest", PosOf(CellA)[1] + o[1] * ChunkSize, 0,
                  PosOf(CellA)[3] + o[2] * ChunkSize)

RoundTripChunks(n) ==
    {[cx |-> o[1], cz |-> o[2], blocks |-> Blocks(a, b), biomes |-> bs,
      block_entities |-> <<ChestAtCellA(o)>>] :
        o \in Origins, a \in 0..(n - 1), b \in 0..(n - 1),
        bs \in {<<1, 1, 2>>, <<3, 1>>}}

InitRoundTrip ==
    /\ NoLook
    /\ NoHistory
    /\ NoBox
    /\ NoSelection
    /\ NoWrapper
    /\ pc = "ready"
    /\ palette \in Palettes
    /\ chunk \in RoundTripChunks(Len(palette))
    /\ chunk0 = chunk
    /\ palette0 = palette
    /\ profile \in RoundTripProfiles
    /\ get_chunk_callback \in {NoResolver, Resolver}
    /\ NoCalls
    /\ NoFold

\* translator.to_universal(version, manager, chunk, palette, callback, full)
ToUniversal(full) ==
    /\ pc = "ready"
    /\ \E r \in {to_universal(profile, chunk, palette, get_chunk_callback, full)} :
           /\ chunk' = r.chunk
           /\ palette' = r.palette
           /\ plain_calls' = r.plain_calls
           /\ lookup_calls' = r.lookup_calls
           /\ resolved' = r.resolved
           /\ biome_calls' = r.biome_calls
           /\ pc' = IF r.failed THEN "failed" ELSE "universal"
    /\ full_translate' = full
    /\ UNCHANGED <<chunk0, palette0, profile, get_chunk_callback, fold_in, fold_lookup,
                   fold_out, look_at, looked,
                   _revisions, _current_revision_index, _saved_revision_index,
                   entry_call, stamps, stored, saved_stamp,
                   box_self, box_other, box_result,
                   _boxes, add_box_call, _mode, _open, _platform, _version,
                   _selection, _data, schematic_file, wrapper_call, at_open>>

\* translator.from_universal(version, manager, chunk, palette, callback, full)
FromUniversal(full) ==
    /\ pc = "universal"
    /\ \E r \in {from_universal(profile, chunk, palette, get_chunk_callback, full)} :
           /\ chunk' = r.chunk
           /\ palette' = r.palette
           /\ plain_calls' = r.plain_calls
           /\ lookup_calls' = r.lookup_calls
           /\ resolved' = r.resolved
           /\ biome_calls' = r.biome_calls
           /\ pc' = IF r.failed THEN "failed" ELSE "back"
    /\ full_translate' = full
    /\ UNCHANGED <<chunk0, palette0, profile, get_chunk_callback, fold_in, fold_lookup,
                   fold_out, look_at, looked,
                   _revisions, _current_revision_index, _saved_revision_index,
                   entry_call, stamps, stored, saved_stamp,
                   box_self, box_other, box_result,
                   _boxes, add_box_call, _mode, _open, _platform, _version,
                   _selection, _data, schematic_file, wrapper_call, at_open>>

NextRoundTrip == ToUniversal(TRUE) \/ FromUniversal(TRUE)

SpecRoundTrip == InitRoundTrip /\ [][NextRoundTrip]_vars

\* everything table t may answer for block n
Answers(t, n) ==
    {t.plain[n].obj} \cup
    (IF t.plain[n].extra THEN {t.ctx[n][m] : m \in Names} ELSE {})

\* from_universal undoes to_universal on every block a palette may hold, whatever
\* to_universal saw around it, and so do the biome translators
MutualInverses(version) ==
    /\ \A n \in {"air", "a", "b"} :
           \A o \in Answers(version.to_universal, n) :
               /\ Len(o.chain) = 1
               /\ version.from_universal.plain[o.chain[1]] = Answer(Blk(<<n>>))
    /\ \A v \in BiomeIds :
           version.biomes_from_universal[version.biomes_to_universal[v]] = v

\* C10: with translators that are mutual inverses, to_universal and then
\* from_universal leave every voxel at a value equal to the one it referenced
\* before, and every biome entry at its value
C10_RoundTrip ==
    (pc = "back" /\ MutualInverses(profile)) =>
        /\ \A k \in Voxels : ValueAt(k) = palette0[chunk0.blocks[k] + 1]
        /\ chunk.biomes = chunk0.biomes

(***************************************************************************)
(* The block entities of Pass 1                                            *)
(***************************************************************************)
\* the block entity the translator answers for palette index i without a lookup
PlainBlockEntity(i) ==
    translate(profile.to_universal, palette0[i + 1], NoCallback, <<1, i>>).final_block_entity

\* the palette indices Pass 1 registers itself
PlainIndices == (0..(Len(palette0) - 1)) \ DeferredIndices

\* the instances of the output collection that Pass 1 made for index i
Pass1Instances(i) ==
    {chunk.block_entities[n].id :
        n \in {m \in 1..Len(chunk.block_entities) : chunk.block_entities[m].id = <<1, i>>}}

\* some entry of the output collection is at the place voxel k gives block entity be
PlacedFor(be, k) ==
    \E n \in 1..Len(chunk.block_entities) :
        \A at \in {voxel_offset(k, chunk0.cx, chunk0.cz)} :
            /\ chunk.block_entities[n].base_name = be.base_name
            /\ chunk.block_entities[n].x = be.x + at[1]
            /\ chunk.block_entities[n].y = be.y + at[2]
            /\ chunk.block_entities[n].z = be.z + at[3]

\* C11: when the plain translation of index i comes with a block entity and k
\* voxels hold i, the output holds k distinct instances, one per voxel, each at
\* its voxel's world position plus the translator's offset
C11_Pass1BlockEntities ==
    FullPassDone =>
        \A i \in PlainIndices :
            \A be \in {PlainBlockEntity(i)} :
                be.some =>
                    \A held \in {{k \in Voxels : chunk0.blocks[k] = i}} :
                        /\ \A k \in held : PlacedFor(be, k)
                        /\ held # {} => Cardinality(Pass1Instances(i)) = Cardinality(held)

(***************************************************************************)
(* The neighbour lookup on its own                                         *)
(***************************************************************************)
LookupOrigins == {<<0, 0>>, <<1, -1>>}

\* the world position of the voxel at chunk-local <<x, y, z>> of the chunk at o
WorldPos(o, local) == <<local[1] + o[1] * ChunkSize, local[2], local[3] + o[2] * ChunkSize>>

ChestAtWorld(w) == BlockEntityAt(<<0, 1>>, "universal", "chest", w[1], w[2], w[3])

\* the chunk being translated: no block entity, or a chest at one of the free voxels
LookupChunksAt(o) ==
    {[cx |-> o[1], cz |-> o[2], blocks |-> Blocks(1, 2), biomes |-> <<>>,
      block_entities |-> bes] :
        bes \in {<<>>} \cup {<<ChestAtWorld(WorldPos(o, PosOf(k)))>> : k \in {CellA, CellB}}}

LookupChunks == UNION {LookupChunksAt(o) : o \in LookupOrigins}

\* the first voxel of the neighbour to the east, and the voxel of the neighbour to
\* the north that lies beside CellA
EastCell == FlatOf(0, 0, 0)

NorthCell == FlatOf(ChunkSize - 2, 0, ChunkSize - 1)

LookupMarks ==
    [c \in WorldCoords |->
        IF c = <<1, 0>> THEN {EastCell} ELSE IF c = <<0, -1>> THEN {NorthCell} ELSE {}]

\* the resolver of the chunk at o: it is asked for a neighbour by the arguments
\* the closure hands it; with chests, the neighbour to the east holds one at the
\* world position of its first voxel
LookupEntities(o, chests) ==
    [c \in WorldCoords |->
        IF chests /\ c = <<1, 0>>
        THEN <<ChestAtWorld(WorldPos(<<o[1] + 1, o[2]>>, PosOf(EastCell)))>>
        ELSE <<>>]

LookupResolver(o, chests) ==
    [some |-> TRUE, world |-> World, marks |-> LookupMarks,
     entities |-> LookupEntities(o, chests), fails |-> {}]

LookupFrom == {CellA, CellB, FlatOf(0, 0, 0), FlatOf(1, 0, ChunkSize - 1)}

LookupOffsets == {<<1, 0, 0>>, <<-1, 0, 0>>, <<0, 0, 1>>, <<0, 0, -1>>, <<2, 0, 0>>, <<1, 0, 1>>}

InitLookup ==
    /\ pc = "ready"
    /\ palette = <<Air, Blk(<<"a">>), Blk(<<"b">>)>>
    /\ chunk \in LookupChunks
    /\ chunk0 = chunk
    /\ palette0 = palette
    /\ profile = ProfileOf(PlainTable)
    /\ get_chunk_callback \in
           {LookupResolver(<<chunk.cx, chunk.cz>>, chests) : chests \in BOOLEAN}
    /\ NoCalls
    /\ NoFold
    /\ look_at = [k |-> 0, pos |-> <<0, 0, 0>>]
    /\ looked = NoLooked
    /\ NoHistory
    /\ NoBox
    /\ NoSelection
    /\ NoWrapper

\* get_block_at(pos) as Pass 2 builds it for the voxel at flat position k
Lookup(k, pos) ==
    /\ pc = "ready"
    /\ looked' = get_block_at(LookupOf(k), pos)
    /\ look_at' = [k |-> k, pos |-> pos]
    /\ pc' = "looked"
    /\ UNCHANGED <<chunk, palette, chunk0, palette0, profile, get_chunk_callback,
                   full_translate, plain_calls, lookup_calls, resolved, fold_in,
                   fold_lookup, fold_out, biome_calls,
                   _revisions, _current_revision_index, _saved_revision_index,
                   entry_call, stamps, stored, saved_stamp,
                   box_self, box_other, box_result,
                   _boxes, add_box_call, _mode, _open, _platform, _version,
                   _selection, _data, schematic_file, wrapper_call, at_open>>

NextLookup == \E k \in LookupFrom, pos \in LookupOffsets : Lookup(k, pos)

SpecLookup == InitLookup /\ [][NextLookup]_vars

\* the chunk-local position the call looked at, before wrapping
Target ==
    <<PosOf(look_at.k)[1] + look_at.pos[1], PosOf(look_at.k)[2] + look_at.pos[2],
      PosOf(look_at.k)[3] + look_at.pos[3]>>

\* the chunk that owns it, counted from the chunk being translated
TargetChunk == <<Target[1] \div ChunkSize, Target[3] \div ChunkSize>>

\* its flat position in the chunk that owns it
TargetCell == FlatOf(Target[1] % ChunkSize, Target[2], Target[3] % ChunkSize)

\* the value the resolver's chunk for the arguments c holds at flat position k
NeighbourValue(c, k) ==
    IF k \in get_chunk_callback.marks[c]
    THEN Blk(<<"c">>)
    ELSE Blk(<<get_chunk_callback.world[c]>>)

\* C12 as stated: a target outside the footprint is asked of the resolver by the
\* coordinates floor(absolute / 16), the absolute position including the chunk
\* origin, and read at its local position there; a target inside is read from the
\* chunk and palette being translated without the resolver
C12_OwningChunkLookup ==
    pc = "looked" =>
        IF TargetChunk = <<0, 0>>
        THEN /\ looked.resolved = {}
             /\ looked.value = palette[chunk.blocks[TargetCell] + 1]
        ELSE \A c \in {<<chunk.cx + TargetChunk[1], chunk.cz + TargetChunk[2]>>} :
                 /\ looked.resolved = {c}
                 /\ looked.value = NeighbourValue(c, TargetCell)

\* C12 amended: the resolver is asked by the neighbour's coordinates relative to
\* the chunk being translated, floor((x + dx) / 16) and floor((z + dz) / 16) of the
\* chunk-local position
C12_RelativeChunkLookup ==
    pc = "looked" =>
        IF TargetChunk = <<0, 0>>
        THEN /\ looked.resolved = {}
             /\ looked.value = palette[chunk.blocks[TargetCell] + 1]
        ELSE /\ looked.resolved = {TargetChunk}
             /\ looked.value = NeighbourValue(TargetChunk, TargetCell)

\* from the last voxel of a row of a chunk away from the origin, one step east:
\* the neighbour to the east is asked and its first voxel, a marked one, is read
C12_Witness ==
    /\ pc = "looked"
    /\ chunk.cx # 0
    /\ look_at = [k |-> CellB, pos |-> <<1, 0, 0>>]
    /\ looked.resolved = {<<1, 0>>}
    /\ looked.value = Blk(<<"c">>)

\* the block entities of the chunk that owns the target
TargetOwnerEntities ==
    IF TargetChunk = <<0, 0>>
    THEN chunk.block_entities
    ELSE get_chunk_callback.entities[TargetChunk]

\* C13: wherever the chunk is and whatever the offset, the closure returns the
\* block entity at the world position of the voxel it looked at when the owning
\* chunk holds one, and None only when there is none
C13_LookupBlockEntity ==
    pc = "looked" =>
        \A w \in {WorldPos(<<chunk.cx, chunk.cz>>, Target)} :
            looked.be = FirstBlockEntityAt(TargetOwnerEntities, w[1], w[2], w[3])

(***************************************************************************)
(* A chunk with a voxel index outside its palette                          *)
(***************************************************************************)
\* chunks of a palette of n entries where a free voxel holds n, one past the last
MalformedChunks(n) ==
    {[cx |-> o[1], cz |-> o[2], blocks |-> Blocks(a, b), biomes |-> <<>>,
      block_entities |-> <<>>] :
        o \in Origins, a \in {n}, b \in 0..n} \cup
    {[cx |-> o[1], cz |-> o[2], blocks |-> Blocks(a, b), biomes |-> <<>>,
      block_entities |-> <<>>] :
        o \in Origins, a \in 0..n, b \in {n}}

InitMalformed ==
    /\ pc = "ready"
    /\ palette \in Palettes
    /\ chunk \in MalformedChunks(Len(palette))
    /\ chunk0 = chunk
    /\ palette0 = palette
    /\ profile \in {ProfileOf(t) : t \in Translators}
    /\ get_chunk_callback \in {NoResolver, Resolver}
    /\ NoCalls
    /\ NoFold
    /\ NoLook
    /\ NoHistory
    /\ NoBox
    /\ NoSelection
    /\ NoWrapper

NextMalformed == Translate(TRUE)

SpecMalformed == InitMalformed /\ [][NextMalformed]_vars

PassEnded == pc \in {"translated", "failed"} /\ full_translate

\* C14: a full pass over a chunk with a voxel index outside the input palette
\* fails; it never returns with that index kept
C14_MalformedIndexFails ==
    (PassEnded /\ \E k \in Voxels : chunk0.blocks[k] \notin 0..(Len(palette0) - 1))
        => pc = "failed"

(***************************************************************************)
(* to_universal when the translator or the resolver raises                 *)
(***************************************************************************)
\* the translator raises for block "a"
RaisingTable == Table(Plain(Answer(Raise), SelfAnswer("b")), FirstLook)

\* the translator flags "a" and raises when it sees another "a" beside it
RaisingBesideTable ==
    Table(Plain([obj |-> Blk(<<"a">>), be |-> NoBE, extra |-> TRUE], SelfAnswer("b")),
          [probe |-> <<1, 0, 0>>,
           row |-> [m \in Names |-> IF m = "a" THEN Raise ELSE Blk(<<"a">>)]])

FailingTables == {PlainTable, RaisingTable, RaisingBesideTable, BesideTable}

\* the resolver raises when asked for the neighbour to the east
FailingResolver == [Resolver EXCEPT !.fails = {<<1, 0>>}]

FailingProfiles ==
    {Version(t, t, b[1], b[2]) : t \in FailingTables, b \in BiomePairs}

InitFailing ==
    /\ pc = "ready"
    /\ palette \in Palettes
    /\ chunk \in RoundTripChunks(Len(palette))
    /\ chunk0 = chunk
    /\ palette0 = palette
    /\ profile \in FailingProfiles
    /\ get_chunk_callback \in {NoResolver, Resolver, FailingResolver}
    /\ NoCalls
    /\ NoFold
    /\ NoLook
    /\ NoHistory
    /\ NoBox
    /\ NoSelection
    /\ NoWrapper

NextFailing == ToUniversal(TRUE)

SpecFailing == InitFailing /\ [][NextFailing]_vars

\* C15: when the translator or the resolver fails during a full to_universal, the
\* chunk's voxel indices, biomes and block entities are as they were before
C15_NoPartialChunk ==
    (pc = "failed" /\ full_translate) =>
        /\ chunk.blocks = chunk0.blocks
        /\ chunk.biomes = chunk0.biomes
        /\ chunk.block_entities = chunk0.block_entities

(***************************************************************************)
(* The directional wrappers without full_translate                         *)
(***************************************************************************)
\* to_universal(..., full_translate=False), as a neighbour resolver calls it
UnpackToUniversal ==
    /\ pc \in {"ready", "unpacked"}
    /\ \E r \in {to_universal(profile, chunk, palette, get_chunk_callback, FALSE)} :
           /\ chunk' = r.chunk
           /\ palette' = r.palette
           /\ biome_calls' = r.biome_calls
    /\ pc' = IF pc = "ready" THEN "unpacked" ELSE "unpacked again"
    /\ UNCHANGED <<chunk0, palette0, profile, get_chunk_callback, full_translate,
                   plain_calls, lookup_calls, resolved, fold_in, fold_lookup, fold_out,
                   look_at, looked,
                   _revisions, _current_revision_index, _saved_revision_index,
                   entry_call, stamps, stored, saved_stamp,
                   box_self, box_other, box_result,
                   _boxes, add_box_call, _mode, _open, _platform, _version,
                   _selection, _data, schematic_file, wrapper_call, at_open>>

\* from_universal(..., full_translate=False)
PackFromUniversal ==
    /\ pc \in {"ready", "packed"}
    /\ \E r \in {from_universal(profile, chunk, palette, get_chunk_callback, FALSE)} :
           /\ chunk' = r.chunk
           /\ palette' = r.palette
           /\ biome_calls' = r.biome_calls
    /\ pc' = IF pc = "ready" THEN "packed" ELSE "packed again"
    /\ UNCHANGED <<chunk0, palette0, profile, get_chunk_callback, full_translate,
                   plain_calls, lookup_calls, resolved, fold_in, fold_lookup, fold_out,
                   look_at, looked,
                   _revisions, _current_revision_index, _saved_revision_index,
                   entry_call, stamps, stored, saved_stamp,
                   box_self, box_other, box_result,
                   _boxes, add_box_call, _mode, _open, _platform, _version,
                   _selection, _data, schematic_file, wrapper_call, at_open>>

NextUnpack == UnpackToUniversal \/ PackFromUniversal

SpecUnpack == InitRoundTrip /\ [][NextUnpack]_vars

\* C16: without full_translate the wrappers leave the chunk's voxel indices,
\* biomes and block entities exactly as they were, however often they are called
C16_UnpackLeavesChunk ==
    pc \in {"unpacked", "unpacked again", "packed", "packed again"} =>
        /\ chunk.blocks = chunk0.blocks
        /\ chunk.biomes = chunk0.biomes
        /\ chunk.block_entities = chunk0.block_entities

(***************************************************************************)
(* The history of one entry: RAMEntry                                      *)
(***************************************************************************)
MaxStored == 4

Entries == {"e1", "e2"}

\* no chunk is being translated
NoTranslation ==
    /\ pc = "idle"
    /\ palette = <<Air>>
    /\ chunk = [cx |-> 0, cz |-> 0, blocks |-> Blocks(0, 0), biomes |-> <<>>,
                block_entities |-> <<>>]
    /\ chunk0 = chunk
    /\ palette0 = palette
    /\ profile = ProfileOf(PlainTable)
    /\ get_chunk_callback = NoResolver
    /\ NoCalls
    /\ NoFold
    /\ NoLook

\* list[index] of Python: negative indices count from the end, others raise
list_item(list, index) ==
    IF index >= 0 /\ index < Len(list)
    THEN [failed |-> FALSE, item |-> list[index + 1]]
    ELSE IF index < 0 /\ -index <= Len(list)
    THEN [failed |-> FALSE, item |-> list[Len(list) + index + 1]]
    ELSE [failed |-> TRUE, item |-> ""]

changed == _current_revision_index # _saved_revision_index

get_current_entry == list_item(_revisions, _current_revision_index)

\* del list[index + 1:] for a non-negative index
del_above(list, index) ==
    IF Len(list) > index + 1 THEN SubSeq(list, 1, index + 1) ELSE list

\* the call about to be made, and the state it finds
EntryCall(op, entry, raised) ==
    [op |-> op, entry |-> entry, raised |-> raised, revisions |-> _revisions,
     index |-> _current_revision_index, saved |-> _saved_revision_index]

\* RAMEntry(initial_state)
InitHistory ==
    /\ NoTranslation
    /\ NoBox
    /\ NoSelection
    /\ NoWrapper
    /\ \E initial_state \in Entries : _revisions = <<initial_state>>
    /\ _current_revision_index = 0
    /\ _saved_revision_index = 0
    /\ entry_call = NoEntryCall
    /\ stamps = <<1>>
    /\ stored = 1
    /\ saved_stamp = 1

put_new_entry(entry) ==
    /\ stored < MaxStored
    /\ _revisions' = Append(del_above(_revisions, _current_revision_index), entry)
    /\ _saved_revision_index' =
           IF _saved_revision_index > _current_revision_index
           THEN -1
           ELSE _saved_revision_index
    /\ _current_revision_index' = _current_revision_index + 1
    /\ entry_call' = EntryCall("put_new_entry", entry, FALSE)
    /\ stamps' = Append(del_above(stamps, _current_revision_index), stored + 1)
    /\ stored' = stored + 1
    /\ UNCHANGED saved_stamp
    /\ UNCHANGED <<pc, chunk, palette, chunk0, palette0, profile, get_chunk_callback,
                   full_translate, plain_calls, lookup_calls, resolved, fold_in,
                   fold_lookup, fold_out, biome_calls, look_at, looked,
                   box_self, box_other, box_result,
                   _boxes, add_box_call, _mode, _open, _platform, _version,
                   _selection, _data, schematic_file, wrapper_call, at_open>>

\* a raise leaves the entry as it is
undo ==
    /\ entry_call' = EntryCall("undo", "", _current_revision_index <= 0)
    /\ _current_revision_index' =
           IF _current_revision_index <= 0
           THEN _current_revision_index
           ELSE _current_revision_index - 1
    /\ UNCHANGED <<_revisions, _saved_revision_index, stamps, stored, saved_stamp>>
    /\ UNCHANGED <<pc, chunk, palette, chunk0, palette0, profile, get_chunk_callback,
                   full_translate, plain_calls, lookup_calls, resolved, fold_in,
                   fold_lookup, fold_out, biome_calls, look_at, looked,
                   box_self, box_other, box_result,
                   _boxes, add_box_call, _mode, _open, _platform, _version,
                   _selection, _data, schematic_file, wrapper_call, at_open>>

redo ==
    /\ entry_call' = EntryCall("redo", "", _current_revision_index >= Len(_revisions))
    /\ _current_revision_index' =
           IF _current_revision_index >= Len(_revisions)
           THEN _current_revision_index
           ELSE _current_revision_index + 1
    /\ UNCHANGED <<_revisions, _saved_revision_index, stamps, stored, saved_stamp>>
    /\ UNCHANGED <<pc, chunk, palette, chunk0, palette0, profile, get_chunk_callback,
                   full_translate, plain_calls, lookup_calls, resolved, fold_in,
                   fold_lookup, fold_out, biome_calls, look_at, looked,
                   box_self, box_other, box_result,
                   _boxes, add_box_call, _mode, _open, _platform, _version,
                   _selection, _data, schematic_file, wrapper_call, at_open>>

mark_saved ==
    /\ _saved_revision_index' = _current_revision_index
    /\ entry_call' = EntryCall("mark_saved", "", FALSE)
    /\ saved_stamp' =
           IF _current_revision_index >= 0 /\ _current_revision_index < Len(stamps)
           THEN stamps[_current_revision_index + 1]
           ELSE 0
    /\ UNCHANGED <<_revisions, _current_revision_index, stamps, stored>>
    /\ UNCHANGED <<pc, chunk, palette, chunk0, palette0, profile, get_chunk_callback,
                   full_translate, plain_calls, lookup_calls, resolved, fold_in,
                   fold_lookup, fold_out, biome_calls, look_at, looked,
                   box_self, box_other, box_result,
                   _boxes, add_box_call, _mode, _open, _platform, _version,
                   _selection, _data, schematic_file, wrapper_call, at_open>>

NextHistory ==
    \/ \E entry \in Entries : put_new_entry(entry)
    \/ undo
    \/ redo
    \/ mark_saved

SpecHistory == InitHistory /\ [][NextHistory]_vars

\* the state the last call found is the state it left
EntryLeftAlone ==
    /\ _revisions = entry_call.revisions
    /\ _current_revision_index = entry_call.index
    /\ _saved_revision_index = entry_call.saved

\* C17: the current index always names a stored revision, and undo at revision 0
\* and redo at the highest revision raise and change nothing
C17_HistoryBounds ==
    /\ 0 <= _current_revision_index
    /\ _current_revision_index <= Len(_revisions) - 1
    /\ ~get_current_entry.failed
    /\ (entry_call.op = "undo" /\ entry_call.index = 0) =>
           (entry_call.raised /\ EntryLeftAlone)
    /\ (entry_call.op = "redo" /\ entry_call.index = Len(entry_call.revisions) - 1) =>
           (entry_call.raised /\ EntryLeftAlone)

\* the store that made the current revision (0: the index names no revision)
CurrentStamp ==
    IF _current_revision_index >= 0 /\ _current_revision_index < Len(stamps)
    THEN stamps[_current_revision_index + 1]
    ELSE 0

\* C18: changed is False exactly when the current revision is the stored
\* revision that was current at the last mark_saved (or the initial one)
C18_ChangedSinceSave ==
    (~changed) <=> (CurrentStamp # 0 /\ CurrentStamp = saved_stamp)

\* C19: right after put_new_entry(e) the current entry is e, e is the last
\* revision, it sits directly above the previous current revision, and the
\* revisions up to the previous current index are unchanged
C19_PutNewEntry ==
    entry_call.op = "put_new_entry" =>
        /\ get_current_entry = [failed |-> FALSE, item |-> entry_call.entry]
        /\ _revisions[Len(_revisions)] = entry_call.entry
        /\ Len(_revisions) = entry_call.index + 2
        /\ \A i \in 1..(entry_call.index + 1) :
               i <= Len(entry_call.revisions) => _revisions[i] = entry_call.revisions[i]

(***************************************************************************)
(* Selection boxes: SubBox                                                 *)
(***************************************************************************)
MaxCoord == 2

\* a SubBox is <<min, max>>, each a point <<x, y, z>>
min_x(b) == b[1][1]
min_y(b) == b[1][2]
min_z(b) == b[1][3]
max_x(b) == b[2][1]
max_y(b) == b[2][2]
max_z(b) == b[2][3]

\* SubBox.__iter__: the product of the three ranges
points(b) ==
    {p \in (min_x(b)..(max_x(b) - 1)) \X (min_y(b)..(max_y(b) - 1))
            \X (min_z(b)..(max_z(b) - 1)) : TRUE}

intersects(b, other) ==
    ~(\/ min_x(b) > max_x(other)
      \/ min_y(b) > max_y(other)
      \/ min_z(b) > max_z(other)
      \/ max_x(b) < min_x(other)
      \/ max_y(b) < min_y(other)
      \/ max_z(b) < min_z(other))

\* boxes of one block
UnitBoxes ==
    {<<<<x, y, z>>, <<x + 1, y + 1, z + 1>>>> :
        x \in 0..(MaxCoord - 1), y \in 0..(MaxCoord - 1), z \in 0..(MaxCoord - 1)}

\* boxes with min <= max on every axis
Extents == {e \in (0..MaxCoord) \X (0..MaxCoord) : e[1] <= e[2]}

Boxes ==
    {<<<<ex[1], ey[1], ez[1]>>, <<ex[2], ey[2], ez[2]>>>> :
        ex \in Extents, ey \in Extents, ez \in Extents}

InitBox ==
    /\ NoTranslation
    /\ NoHistory
    /\ NoSelection
    /\ NoWrapper
    /\ box_self \in UnitBoxes
    /\ box_other \in Boxes
    /\ box_result = NoBoxResult

Intersects ==
    /\ box_result = NoBoxResult
    /\ box_result' = <<intersects(box_self, box_other)>>
    /\ UNCHANGED <<pc, chunk, palette, chunk0, palette0, profile, get_chunk_callback,
                   full_translate, plain_calls, lookup_calls, resolved, fold_in,
                   fold_lookup, fold_out, biome_calls, look_at, looked,
                   _revisions, _current_revision_index, _saved_revision_index,
                   entry_call, stamps, stored, saved_stamp, box_self, box_other,
                   _boxes, add_box_call, _mode, _open, _platform, _version,
                   _selection, _data, schematic_file, wrapper_call, at_open>>

NextBox == Intersects

SpecBox == InitBox /\ [][NextBox]_vars

\* C20: intersects returns True exactly when some point lies in both boxes,
\* the minimum point being inclusive and the maximum point exclusive
C20_Intersects ==
    box_result # NoBoxResult =>
        (box_result[1] <=> (points(box_self) \cap points(box_other) # {}))

(***************************************************************************)
(* Selection boxes: SelectionBox                                           *)
(***************************************************************************)
MaxAdds == 3

\* SelectionBox.__iter__: the points of every SubBox
selection_points(boxes) == UNION {points(boxes[i]) : i \in 1..Len(boxes)}

\* the merge test of add_box for one existing box
mergeable(b, other) ==
    LET x_dim == min_x(b) = min_x(other) /\ max_x(b) = max_x(other)
        y_dim == min_y(b) = min_y(other) /\ max_y(b) = max_y(other)
        z_dim == min_z(b) = min_z(other) /\ max_z(b) = max_z(other)
        x_border == max_x(b) = min_x(other) \/ max_x(other) = min_x(b)
        y_border == max_y(b) = min_y(other) \/ max_y(other) = min_y(b)
        z_border == max_z(b) = min_z(other) \/ max_z(other) = min_z(b)
    IN  \/ x_dim /\ y_dim /\ z_border
        \/ x_dim /\ z_dim /\ y_border
        \/ y_dim /\ z_dim /\ x_border

\* list.remove of the box found at position i
remove_at(boxes, i) == SubSeq(boxes, 1, i - 1) \o SubSeq(boxes, i + 1, Len(boxes))

\* new_box = SubBox(box.min, other.max)
merged(b, other) == <<b[1], other[2]>>

RECURSIVE add_box(_, _, _)
\* the boxes after add_box, and the number of add_box calls made
add_box(boxes, other, do_merge_check) ==
    LET hits == {i \in 1..Len(boxes) : mergeable(boxes[i], other)}
        first == CHOOSE i \in hits : \A j \in hits : i <= j
        nested(r) == [boxes |-> r.boxes, calls |-> r.calls + 1]
    IN  IF do_merge_check /\ hits # {}
        THEN nested(add_box(remove_at(boxes, first), merged(boxes[first], other), TRUE))
        ELSE [boxes |-> Append(boxes, other), calls |-> 1]

\* boxes of one block in z, of one or two blocks in y
SlabExtents == {e \in (0..MaxCoord) \X (0..MaxCoord) : e[1] < e[2]}

Slabs ==
    {<<<<ex[1], ey[1], 0>>, <<ex[2], ey[2], 1>>>> :
        ex \in SlabExtents, ey \in {<<0, 1>>, <<0, 2>>}}

\* SelectionBox()
InitSelection ==
    /\ NoTranslation
    /\ NoHistory
    /\ NoBox
    /\ NoWrapper
    /\ _boxes = <<>>
    /\ add_box_call = NoAddBoxCall

AddBox(other, do_merge_check) ==
    /\ Len(_boxes) < MaxAdds
    /\ \E r \in {add_box(_boxes, other, do_merge_check)} :
           /\ _boxes' = r.boxes
           /\ add_box_call' = [other |-> other, do_merge_check |-> do_merge_check,
                               boxes |-> _boxes, calls |-> r.calls]
    /\ UNCHANGED <<pc, chunk, palette, chunk0, palette0, profile, get_chunk_callback,
                   full_translate, plain_calls, lookup_calls, resolved, fold_in,
                   fold_lookup, fold_out, biome_calls, look_at, looked,
                   _revisions, _current_revision_index, _saved_revision_index,
                   entry_call, stamps, stored, saved_stamp,
                   box_self, box_other, box_result,
                   _mode, _open, _platform, _version, _selection, _data,
                   schematic_file, wrapper_call, at_open>>

NextSelection == \E other \in Slabs, do_merge_check \in BOOLEAN : AddBox(other, do_merge_check)

SpecSelection == InitSelection /\ [][NextSelection]_vars

\* the last call was add_box with do_merge_check true
MergeChecked == add_box_call.calls > 0 /\ add_box_call.do_merge_check

\* C21: after add_box with the merge check, a bordering box of identical extents
\* on the two other axes has been combined with `other`, the selection's points
\* are those before the call united with those of `other`, and the call ended
C21_AddBox ==
    MergeChecked =>
        /\ (\E i \in 1..Len(add_box_call.boxes) :
                mergeable(add_box_call.boxes[i], add_box_call.other))
               => Len(_boxes) <= Len(add_box_call.boxes)
        /\ selection_points(_boxes) =
               selection_points(add_box_call.boxes) \cup points(add_box_call.other)
        /\ add_box_call.calls <= Len(add_box_call.boxes) + 1

(***************************************************************************)
(* The schematic format wrapper                                            *)
(***************************************************************************)
Platforms == {"java", "bedrock"}

Versions == {<<1, 12, 2>>, <<1, 13, 0>>}

EmptySelection == <<<<0, 0, 0>>, <<0, 0, 0>>>>

SelectedBoxes == {<<<<0, 0, 0>>, <<1, 1, 1>>>>, <<<<0, 0, 0>>, <<2, 2, 2>>>>}

\* the selection_boxes of the SelectionGroup handed to the selection setter
SelectionGroups ==
    {<<>>} \cup {<<b>> : b \in SelectedBoxes}
           \cup {<<a, b>> : a \in SelectedBoxes, b \in SelectedBoxes}

\* the file at the path: whether SchematicReader can read it, and what it holds
SchematicFiles ==
    {[exists |-> TRUE, readable |-> r, platform |-> p, selection |-> b] :
        r \in BOOLEAN, p \in Platforms, b \in SelectedBoxes}

WrapperCall(op, value, raised, logged) ==
    [op |-> op, value |-> value, raised |-> raised, logged |-> logged]

\* SchematicFormatWrapper(path, mode); a file to read exists
InitWrapper ==
    /\ NoTranslation
    /\ NoHistory
    /\ NoBox
    /\ NoSelection
    /\ _mode \in {"r", "w"}
    /\ schematic_file \in SchematicFiles
    /\ _data = NoData
    /\ _open = FALSE
    /\ _platform = "java"
    /\ _version = <<1, 12, 2>>
    /\ _selection = EmptySelection
    /\ wrapper_call = NoWrapperCall
    /\ at_open = <<>>

\* open(); the reader raises on a file it cannot read
open ==
    /\ IF _open
       THEN /\ wrapper_call' = WrapperCall("open", <<>>, FALSE, FALSE)
            /\ UNCHANGED <<_data, _platform, _selection, _open, at_open>>
       ELSE IF _mode = "r" /\ ~schematic_file.readable
       THEN /\ wrapper_call' = WrapperCall("open", <<>>, TRUE, FALSE)
            /\ UNCHANGED <<_data, _platform, _selection, _open, at_open>>
       ELSE IF _mode = "r"
       THEN /\ _data' = [kind |-> "SchematicReader",
                         platform |-> schematic_file.platform,
                         selection |-> schematic_file.selection]
            /\ _platform' = schematic_file.platform
            /\ _selection' = schematic_file.selection
            /\ _open' = TRUE
            /\ at_open' = <<schematic_file.platform, _version, schematic_file.selection>>
            /\ wrapper_call' = WrapperCall("open", <<>>, FALSE, FALSE)
       ELSE /\ _data' = [kind |-> "SchematicWriter", platform |-> _platform,
                         selection |-> _selection]
            /\ _open' = TRUE
            /\ at_open' = <<_platform, _version, _selection>>
            /\ wrapper_call' = WrapperCall("open", <<>>, FALSE, FALSE)
            /\ UNCHANGED <<_platform, _selection>>
    /\ UNCHANGED <<_mode, _version, schematic_file>>
    /\ UNCHANGED <<pc, chunk, palette, chunk0, palette0, profile, get_chunk_callback,
                   full_translate, plain_calls, lookup_calls, resolved, fold_in,
                   fold_lookup, fold_out, biome_calls, look_at, looked,
                   _revisions, _current_revision_index, _saved_revision_index,
                   entry_call, stamps, stored, saved_stamp,
                   box_self, box_other, box_result, _boxes, add_box_call>>

set_platform_unguarded(platform) ==
    /\ _platform' = platform
    /\ wrapper_call' = WrapperCall("platform", platform, FALSE, FALSE)
    /\ UNCHANGED <<_mode, _open, _version, _selection, _data, schematic_file, at_open>>
    /\ UNCHANGED <<pc, chunk, palette, chunk0, palette0, profile, get_chunk_callback,
                   full_translate, plain_calls, lookup_calls, resolved, fold_in,
                   fold_lookup, fold_out, biome_calls, look_at, looked,
                   _revisions, _current_revision_index, _saved_revision_index,
                   entry_call, stamps, stored, saved_stamp,
                   box_self, box_other, box_result, _boxes, add_box_call>>

\* wrapper.platform = platform
set_platform(platform) ==
    /\ _platform' = IF _open THEN _platform ELSE platform
    /\ wrapper_call' = WrapperCall("platform", platform, FALSE, _open)
    /\ UNCHANGED <<_mode, _open, _version, _selection, _data, schematic_file, at_open>>
    /\ UNCHANGED <<pc, chunk, palette, chunk0, palette0, profile, get_chunk_callback,
                   full_translate, plain_calls, lookup_calls, resolved, fold_in,
                   fold_lookup, fold_out, biome_calls, look_at, looked,
                   _revisions, _current_revision_index, _saved_revision_index,
                   entry_call, stamps, stored, saved_stamp,
                   box_self, box_other, box_result, _boxes, add_box_call>>

\* wrapper.version = version
set_version(version) ==
    /\ _version' = IF _open THEN _version ELSE version
    /\ wrapper_call' = WrapperCall("version", version, FALSE, _open)
    /\ UNCHANGED <<_mode, _open, _platform, _selection, _data, schematic_file, at_open>>
    /\ UNCHANGED <<pc, chunk, palette, chunk0, palette0, profile, get_chunk_callback,
                   full_translate, plain_calls, lookup_calls, resolved, fold_in,
                   fold_lookup, fold_out, biome_calls, look_at, looked,
                   _revisions, _current_revision_index, _saved_revision_index,
                   entry_call, stamps, stored, saved_stamp,
                   box_self, box_other, box_result, _boxes, add_box_call>>

\* wrapper.selection = selection; an empty group raises
set_selection(selection_boxes) ==
    /\ _selection' =
           IF _open \/ selection_boxes = <<>> THEN _selection ELSE selection_boxes[1]
    /\ wrapper_call' = WrapperCall("selection", selection_boxes,
                                   ~_open /\ selection_boxes = <<>>, _open)
    /\ UNCHANGED <<_mode, _open, _platform, _version, _data, schematic_file, at_open>>
    /\ UNCHANGED <<pc, chunk, palette, chunk0, palette0, profile, get_chunk_callback,
                   full_translate, plain_calls, lookup_calls, resolved, fold_in,
                   fold_lookup, fold_out, biome_calls, look_at, looked,
                   _revisions, _current_revision_index, _saved_revision_index,
                   entry_call, stamps, stored, saved_stamp,
                   box_self, box_other, box_result, _boxes, add_box_call>>

NextWrapper ==
    \/ open
    \/ \E platform \in Platforms : set_platform(platform)
    \/ \E version \in Versions : set_version(version)
    \/ \E selection_boxes \in SelectionGroups : set_selection(selection_boxes)

SpecWrapper == InitWrapper /\ [][NextWrapper]_vars

\* C22: once open() has returned, platform, version and selection stay what
\* they were right after it returned, whatever is assigned and however often
\* open() is called again
C22_FrozenAfterOpen ==
    _open => <<_platform, _version, _selection>> = at_open

\* an opened wrapper was assigned a platform other than its own
C22_Witness ==
    /\ _open
    /\ wrapper_call.op = "platform"
    /\ wrapper_call.value # _platform

====
